---------------------------- MODULE Spec2Model ----------------------------
(***************************************************************************)
(* A model of the student-advising tools of dsf_backend_adk:               *)
(*   agents/scheduler/scheduler.py     catalog caches and scheduler tools  *)
(*   agents/coordinator/coordinator.py before_agent_callback               *)
(*   agents/talkative/talkative.py     load_faqs, get_faq_answer           *)
(*                                                                         *)
(* Python strings are sequences of one-character strings, so that          *)
(* lower(), strip(), split(","), int() and the lexicographic order of      *)
(* sorted() are computed rather than assumed.  Python dicts are TLA+       *)
(* records: a key that is absent is a field that is not in DOMAIN.         *)
(***************************************************************************)
EXTENDS Integers, Sequences, FiniteSets, TLC

(***************************************************************************)
(* Bounds of the model.                                                    *)
(***************************************************************************)
\* longest year argument handed to get_course_offerings
MaxYearLen == 2
\* number of concurrently running callers of a lazy loader
NumThreads == 2
\* longest question handed to get_faq_answer
MaxQuestionLen == 2
\* longest Still_Needed string a row of student_courses_needed holds
MaxNeededLen == 3

(***************************************************************************)
(* Strings.                                                                *)
(***************************************************************************)
\* code point of a character (only the order matters)
Ord(c) ==
  CASE c = " " -> 32
    [] c = "," -> 44
    [] c = "1" -> 49
    [] c = "2" -> 50
    [] c = "A" -> 65
    [] c = "B" -> 66
    [] c = "F" -> 70
    [] c = "W" -> 87
    [] c = "a" -> 97
    [] c = "b" -> 98
    [] c = "f" -> 102
    [] c = "w" -> 119
    [] c = "x" -> 120

\* str.lower() on one character
LowerChar(c) ==
  CASE c = "A" -> "a"
    [] c = "B" -> "b"
    [] c = "F" -> "f"
    [] c = "W" -> "w"
    [] OTHER -> c

\* str.lower()
Lower(s) == [i \in 1..Len(s) |-> LowerChar(s[i])]

IsSpace(c) == c = " "

RECURSIVE LStrip(_)
LStrip(s) == IF s # <<>> /\ IsSpace(Head(s)) THEN LStrip(Tail(s)) ELSE s

RECURSIVE RStrip(_)
RStrip(s) ==
  IF s # <<>> /\ IsSpace(s[Len(s)]) THEN RStrip(SubSeq(s, 1, Len(s) - 1)) ELSE s

\* str.strip()
Strip(s) == RStrip(LStrip(s))

\* s < t for Python strings: lexicographic by code point
RECURSIVE StrLess(_, _)
StrLess(s, t) ==
  IF t = <<>> THEN FALSE
  ELSE IF s = <<>> THEN TRUE
  ELSE IF Head(s) = Head(t) THEN StrLess(Tail(s), Tail(t))
  ELSE Ord(Head(s)) < Ord(Head(t))

\* all strings over an alphabet of length lo..hi
StringsOver(alphabet, lo, hi) ==
  UNION {[1..n -> alphabet] : n \in lo..hi}

\* a list where an element is put in front of the first larger one
RECURSIVE Insert(_, _)
Insert(x, sortedList) ==
  IF sortedList = <<>> THEN <<x>>
  ELSE IF StrLess(x, Head(sortedList)) THEN <<x>> \o sortedList
  ELSE <<Head(sortedList)>> \o Insert(x, Tail(sortedList))

\* sorted(xs) on a list of strings: ascending, equal elements kept
RECURSIVE sorted(_)
sorted(xs) ==
  IF xs = <<>> THEN <<>>
  ELSE Insert(xs[Len(xs)], sorted(SubSeq(xs, 1, Len(xs) - 1)))

\* list(a_set): the elements in some order
RECURSIVE list(_)
list(S) ==
  IF S = {} THEN <<>>
  ELSE LET x == CHOOSE y \in S : TRUE IN <<x>> \o list(S \ {x})

Range(s) == {s[i] : i \in DOMAIN s}

StrictlyAscending(s) == \A i \in 1..(Len(s) - 1) : StrLess(s[i], s[i + 1])

Ascending(s) == \A i \in 1..(Len(s) - 1) : ~StrLess(s[i + 1], s[i])

(***************************************************************************)
(* Python values.                                                          *)
(***************************************************************************)
PyNone == [isNone |-> TRUE]
PyList(items) == [isNone |-> FALSE, items |-> items]

\* how a call ends
Return(v) == [kind |-> "return", value |-> v]
Raise(e) == [kind |-> "raise", exc |-> e]

\* dict key test and dict.get(key, default)
HasKey(d, k) == k \in DOMAIN d
Get(d, k, default) == IF HasKey(d, k) THEN d[k] ELSE default

(***************************************************************************)
(* State.                                                                  *)
(***************************************************************************)
VARIABLES
  coursesFile,       \* database/courses.json, as the file system holds it
  offeringsFile,     \* database/offerings.json
  _COURSE_CACHE,     \* scheduler.py module global
  _OFFERINGS_CACHE,  \* scheduler.py module global
  courseReads,       \* completed reads of database/courses.json
  offeringsReads,    \* completed reads of database/offerings.json
  failedLoads,       \* history: the loaders of which a call has raised
  studentsFile,      \* database/students.json
  state,             \* the session state behind callback_context / tool_context
  needed_table,      \* schedule_recommend.student_courses_needed, or the query failing
  offerings_table,   \* schedule_recommend.next_term_course_offerings, or the query failing
  courses_taken,     \* the courses the student of the request has completed
  faq_responses,     \* talkative.py module global
  pc,                \* where each concurrent caller of _load_courses stands
  loaded,            \* each concurrent caller's value of json.load(f), not yet stored
  returned,          \* how each concurrent caller's call ended
  result             \* the call made by the last step and how it ended;
                     \* NoCall after a step of the environment

catalogVars == <<coursesFile, offeringsFile, _COURSE_CACHE, _OFFERINGS_CACHE,
                 courseReads, offeringsReads, failedLoads>>
sessionVars == <<studentsFile, state>>
remoteVars == <<needed_table, offerings_table, courses_taken>>
faqVars == <<faq_responses>>
threadVars == <<pc, loaded, returned>>

vars == <<catalogVars, sessionVars, remoteVars, faqVars, threadVars, result>>

NoCall == [op |-> "none"]
Call(op, args, out) == [op |-> op, args |-> args, out |-> out]

(***************************************************************************)
(* The backing files.  A file that parses holds a JSON array (its records  *)
(* may lack fields); a file may also be absent, unreadable, or not JSON.   *)
(***************************************************************************)
Missing == [kind |-> "missing"]
Unreadable == [kind |-> "unreadable"]
Malformed == [kind |-> "malformed"]
Json(v) == [kind |-> "json", value |-> v]

CourseA == [course_id |-> <<"A">>, title |-> "Intro", prerequisites |-> <<>>]
CourseB == [course_id |-> <<"B">>, title |-> "Next", prerequisites |-> << <<"A">> >>]
CourseA2 == [course_id |-> <<"A">>, title |-> "Duplicate", prerequisites |-> <<>>]
CourseNoId == [title |-> "Untitled"]

CourseCatalogs ==
  { <<>>, <<CourseA, CourseB>>, <<CourseA2, CourseA>>, <<CourseNoId, CourseB>> }

CoursesFiles == {Missing, Unreadable, Malformed} \cup {Json(c) : c \in CourseCatalogs}

Fall1 == [term |-> <<"F", "a">>, year |-> 1, courses |-> << <<"B">>, <<"A">> >>]
Fall1b == [term |-> <<"f", "a">>, year |-> 1, courses |-> << <<"A">> >>]
Fall11 == [term |-> <<"F", "a">>, year |-> 11, courses |-> << <<"B">>, <<"A">>, <<"B">> >>]
Winter11 == [term |-> <<"W">>, year |-> 11]
NoTerm == [year |-> 1, courses |-> << <<"A">> >>]

OfferingTables ==
  { <<>>, <<Fall1, Fall11, Winter11>>, <<Fall1b, Fall1>>, <<Fall11, NoTerm, Fall1>> }

OfferingsFiles == {Missing, Unreadable, Malformed} \cup {Json(o) : o \in OfferingTables}

\* with open(path) as f: json.load(f)
ReadJson(file) ==
  CASE file.kind = "missing" -> Raise("FileNotFoundError")
    [] file.kind = "unreadable" -> Raise("PermissionError")
    [] file.kind = "malformed" -> Raise("JSONDecodeError")
    [] file.kind = "json" -> Return(PyList(file.value))

(***************************************************************************)
(* Catalog store: the lazy loaders.  Each yields how the call ends, the    *)
(* cache after it, the number of completed reads after it, and whether the *)
(* loader raised.                                                          *)
(***************************************************************************)
\* a faulty variant: the file is read on every call
LazyLoadAlways(file, cache, reads) ==
  LET r == ReadJson(file)
  IN IF r.kind = "raise"
     THEN [out |-> r, cache |-> cache, reads |-> reads, failed |-> TRUE]
     ELSE [out |-> Return(r.value), cache |-> r.value, reads |-> reads + 1,
           failed |-> FALSE]

\* a faulty variant: a load that fails leaves an empty list in the cache
LazyLoadPoisoning(file, cache, reads) ==
  IF cache = PyNone
  THEN LET r == ReadJson(file)
       IN IF r.kind = "raise"
          THEN [out |-> r, cache |-> PyList(<<>>), reads |-> reads, failed |-> TRUE]
          ELSE [out |-> Return(r.value), cache |-> r.value, reads |-> reads + 1,
                failed |-> FALSE]
  ELSE [out |-> Return(cache), cache |-> cache, reads |-> reads, failed |-> FALSE]

LazyLoad(file, cache, reads) ==
  IF cache = PyNone
  THEN LET r == ReadJson(file)
       IN IF r.kind = "raise"
          THEN [out |-> r, cache |-> cache, reads |-> reads, failed |-> TRUE]
          ELSE [out |-> Return(r.value), cache |-> r.value, reads |-> reads + 1,
                failed |-> FALSE]
  ELSE [out |-> Return(cache), cache |-> cache, reads |-> reads, failed |-> FALSE]

_load_courses == LazyLoad(coursesFile, _COURSE_CACHE, courseReads)

_load_offerings == LazyLoad(offeringsFile, _OFFERINGS_CACHE, offeringsReads)

(***************************************************************************)
(* Tool results.  A message keeps its text and the values formatted into   *)
(* it, each a string.                                                      *)
(***************************************************************************)
Msg(text, args) == [text |-> text, args |-> args]

EmptyDict == [k \in {} |-> k]

\* except (...) as exc: whether the raised exception is one of the named ones
Caught(out, names) == out.kind = "raise" /\ out.exc \in names

(***************************************************************************)
(* Course lookup: get_course_details.                                      *)
(***************************************************************************)
\* for course in courses: if course.get("course_id") == course_id: return ...
RECURSIVE FirstCourse(_, _)
FirstCourse(courses, course_id) ==
  IF courses = <<>> THEN PyNone
  ELSE IF HasKey(Head(courses), "course_id") /\ Head(courses).course_id = course_id
       THEN Head(courses)
       ELSE FirstCourse(Tail(courses), course_id)

get_course_details(course_id) ==
  LET l == _load_courses
      hit == FirstCourse(l.out.value.items, course_id)
      out ==
        IF Caught(l.out, {"FileNotFoundError", "JSONDecodeError"})
        THEN Return([status |-> "error", course_details |-> EmptyDict,
                     message |-> Msg("Unable to load course catalog: {exc}",
                                     << <<l.out.exc>> >>)])
        ELSE IF l.out.kind = "raise" THEN l.out
        ELSE IF hit # PyNone
        THEN Return([status |-> "success", course_details |-> hit])
        ELSE Return([status |-> "error", course_details |-> EmptyDict,
                     message |-> Msg("Course '{course_id}' not found", <<course_id>>)])
  IN [out |-> out, cache |-> l.cache, reads |-> l.reads, failed |-> l.failed]

(***************************************************************************)
(* Course lookup: get_course_offerings.                                    *)
(***************************************************************************)
IsDigit(c) == c \in {"1", "2"}

DigitValue(c) == CASE c = "1" -> 1 [] c = "2" -> 2

RECURSIVE Decimal(_)
Decimal(digits) ==
  IF digits = <<>> THEN 0
  ELSE 10 * Decimal(SubSeq(digits, 1, Len(digits) - 1)) + DigitValue(digits[Len(digits)])

\* int(s) for a string: surrounding whitespace is dropped, the rest must be digits
int(s) ==
  LET t == Strip(s)
  IN IF t # <<>> /\ \A i \in 1..Len(t) : IsDigit(t[i])
     THEN Return(Decimal(t))
     ELSE Raise("ValueError")

\* a faulty variant: the terms are compared as they are spelled
RECURSIVE TermEntryCaseSensitive(_, _, _)
TermEntryCaseSensitive(offerings_data, quarter, year_int) ==
  IF offerings_data = <<>> THEN Return(PyNone)
  ELSE LET entry == Head(offerings_data)
       IN IF ~HasKey(entry, "term") THEN Raise("KeyError")
          ELSE IF entry.term # quarter
          THEN TermEntryCaseSensitive(Tail(offerings_data), quarter, year_int)
          ELSE IF ~HasKey(entry, "year") THEN Raise("KeyError")
          ELSE IF entry.year = year_int THEN Return(entry)
          ELSE TermEntryCaseSensitive(Tail(offerings_data), quarter, year_int)

\* next((entry for entry in offerings_data
\*       if entry["term"].lower() == quarter.lower() and entry["year"] == year_int), None)
RECURSIVE TermEntry(_, _, _)
TermEntry(offerings_data, quarter, year_int) ==
  IF offerings_data = <<>> THEN Return(PyNone)
  ELSE LET entry == Head(offerings_data)
       IN IF ~HasKey(entry, "term") THEN Raise("KeyError")
          ELSE IF Lower(entry.term) # Lower(quarter)
          THEN TermEntry(Tail(offerings_data), quarter, year_int)
          ELSE IF ~HasKey(entry, "year") THEN Raise("KeyError")
          ELSE IF entry.year = year_int THEN Return(entry)
          ELSE TermEntry(Tail(offerings_data), quarter, year_int)

get_course_offerings(quarter, year) ==
  LET year_int == int(year)
      l == _load_offerings
      unchanged == [cache |-> _OFFERINGS_CACHE, reads |-> offeringsReads, failed |-> FALSE]
      failed(exc) ==
        Return([status |-> "error",
                message |-> Msg("Failed to retrieve offerings: {exc}", << <<exc>> >>),
                offerings |-> <<>>])
      term_entry == TermEntry(l.out.value.items, quarter, year_int.value)
  IN IF year_int.kind = "raise"
     THEN [out |-> failed(year_int.exc)] @@ unchanged
     ELSE IF Caught(l.out, {"ValueError", "FileNotFoundError", "JSONDecodeError"})
     THEN [out |-> failed(l.out.exc), cache |-> l.cache, reads |-> l.reads,
           failed |-> l.failed]
     ELSE IF l.out.kind = "raise"
     THEN [out |-> l.out, cache |-> l.cache, reads |-> l.reads, failed |-> l.failed]
     ELSE [out |->
             IF term_entry.kind = "raise" THEN term_entry
             ELSE IF term_entry.value = PyNone
             THEN Return([status |-> "error",
                          message |-> Msg("No offerings found for {quarter} {year}.",
                                          <<quarter, year>>),
                          offerings |-> <<>>])
             ELSE Return([status |-> "success",
                          message |-> Msg("Courses offered in {quarter} {year} have been retrieved.",
                                          <<quarter, year>>),
                          offerings |-> sorted(Get(term_entry.value, "courses", <<>>))]),
           cache |-> l.cache, reads |-> l.reads, failed |-> l.failed]

(***************************************************************************)
(* Arguments the tools are called with.                                    *)
(***************************************************************************)
CourseIdArgs == { <<"A">>, <<"B">>, <<"a">> }

QuarterArgs == { <<"F", "a">>, <<"f", "A">>, <<"w">>, <<"F">> }

YearArgs == StringsOver({"1", "x", " "}, 0, MaxYearLen)

(***************************************************************************)
(* Steps of the catalog store and the course lookup tools.                 *)
(***************************************************************************)
WriteCoursesFile ==
  /\ \E f \in CoursesFiles \ {coursesFile} : coursesFile' = f
  /\ result' = NoCall
  /\ UNCHANGED <<offeringsFile, _COURSE_CACHE, _OFFERINGS_CACHE, courseReads,
                 offeringsReads, failedLoads>>
  /\ UNCHANGED <<sessionVars, remoteVars, faqVars, threadVars>>

WriteOfferingsFile ==
  /\ \E f \in OfferingsFiles \ {offeringsFile} : offeringsFile' = f
  /\ result' = NoCall
  /\ UNCHANGED <<coursesFile, _COURSE_CACHE, _OFFERINGS_CACHE, courseReads,
                 offeringsReads, failedLoads>>
  /\ UNCHANGED <<sessionVars, remoteVars, faqVars, threadVars>>

CoursesStep(op, args, r) ==
  /\ result' = Call(op, args, r.out)
  /\ _COURSE_CACHE' = r.cache
  /\ courseReads' = r.reads
  /\ failedLoads' = IF r.failed THEN failedLoads \cup {"courses"} ELSE failedLoads
  /\ UNCHANGED <<coursesFile, offeringsFile, _OFFERINGS_CACHE, offeringsReads>>
  /\ UNCHANGED <<sessionVars, remoteVars, faqVars, threadVars>>

OfferingsStep(op, args, r) ==
  /\ result' = Call(op, args, r.out)
  /\ _OFFERINGS_CACHE' = r.cache
  /\ offeringsReads' = r.reads
  /\ failedLoads' = IF r.failed THEN failedLoads \cup {"offerings"} ELSE failedLoads
  /\ UNCHANGED <<coursesFile, offeringsFile, _COURSE_CACHE, courseReads>>
  /\ UNCHANGED <<sessionVars, remoteVars, faqVars, threadVars>>

LoadCourses == CoursesStep("_load_courses", <<>>, _load_courses)

LoadOfferings == OfferingsStep("_load_offerings", <<>>, _load_offerings)

GetCourseDetails ==
  \E course_id \in CourseIdArgs :
    CoursesStep("get_course_details", <<course_id>>, get_course_details(course_id))

GetCourseOfferings ==
  \E quarter \in QuarterArgs, year \in YearArgs :
    OfferingsStep("get_course_offerings", <<quarter, year>>,
                  get_course_offerings(quarter, year))

CatalogInit ==
  /\ coursesFile \in CoursesFiles
  /\ offeringsFile \in OfferingsFiles
  /\ _COURSE_CACHE = PyNone
  /\ _OFFERINGS_CACHE = PyNone
  /\ courseReads = 0
  /\ offeringsReads = 0
  /\ failedLoads = {}

(***************************************************************************)
(* Coordinator: before_agent_callback, and the scheduler tools that only   *)
(* touch the session state: get_student_details and build_schedule.        *)
(***************************************************************************)
STUDENT_ID == "862547410"

\* d[k] = v on a dict
Put(d, k, v) == [x \in DOMAIN d \cup {k} |-> IF x = k THEN v ELSE d[x]]

Me == [student_id |-> STUDENT_ID, name |-> "Ann", courses_taken |-> << <<"A">> >>]
MeNoName == [student_id |-> STUDENT_ID, courses_taken |-> <<>>]
Other == [student_id |-> "860000001", name |-> "Bob", courses_taken |-> <<>>]
NoStudentId == [name |-> "Cy"]

StudentLists ==
  { <<>>, <<Other>>, <<Other, Me>>, <<MeNoName>>, <<NoStudentId, Me>> }

StudentsFiles == {Missing, Unreadable, Malformed} \cup {Json(l) : l \in StudentLists}

\* next((s for s in students if s["student_id"] == STUDENT_ID), None)
RECURSIVE FirstStudent(_)
FirstStudent(students) ==
  IF students = <<>> THEN Return(PyNone)
  ELSE IF ~HasKey(Head(students), "student_id") THEN Raise("KeyError")
  ELSE IF Head(students).student_id = STUDENT_ID THEN Return(Head(students))
  ELSE FirstStudent(Tail(students))

\* the session state after the callback; the callback itself returns None
before_agent_callback ==
  LET students == ReadJson(studentsFile)
      student == FirstStudent(students.value.items)
  IN IF students.kind = "raise" \/ student.kind = "raise"
     THEN Put(state, "student_details", EmptyDict)
     ELSE IF student.value = PyNone
     THEN Put(state, "student_details", EmptyDict)
     \* the record is stored, then the log line reads student['name']
     ELSE IF ~HasKey(student.value, "name")
     THEN Put(Put(state, "student_details", student.value), "student_details", EmptyDict)
     ELSE Put(state, "student_details", student.value)

get_student_details ==
  IF HasKey(state, "student_details")
  THEN Return([status |-> "success", student_details |-> state.student_details])
  ELSE Return([status |-> "error", message |-> Msg("Student details not found in state.", <<>>)])

all_days == <<"Monday", "Tuesday", "Wednesday", "Thursday", "Friday">>

\* str.capitalize() on the day names the tool is called with
capitalize(day) ==
  CASE day \in {"monday", "MONDAY", "Monday"} -> "Monday"
    [] day \in {"friday", "FRIDAY", "Friday"} -> "Friday"
    [] day \in {"sunday", "Sunday"} -> "Sunday"

\* the value stored under state["constraints"]
constraints(avoid_days, avoid_times) ==
  LET avoid_set == {capitalize(avoid_days[i]) : i \in DOMAIN avoid_days}
      allowed(day) == day \notin avoid_set
  IN [allowed_days |-> SelectSeq(all_days, allowed), avoid_times |-> avoid_times]

build_schedule(avoid_days, avoid_times) ==
  Return([status |-> "success",
          message |-> Msg("Your schedule has been built with the following constraints: Avoiding {days} on days and {times} on times.",
                          <<avoid_days, avoid_times>>)])

AvoidDaysArgs == { <<>>, <<"monday">>, <<"FRIDAY", "Monday">>, <<"sunday">> }

AvoidTimesArgs == { <<>>, <<"09:00-12:00">> }

SessionStep(op, args, out, newState) ==
  /\ result' = Call(op, args, out)
  /\ state' = newState
  /\ UNCHANGED <<studentsFile, catalogVars, remoteVars, faqVars, threadVars>>

BeforeAgentCallback ==
  SessionStep("before_agent_callback", <<>>, Return(PyNone), before_agent_callback)

GetStudentDetails ==
  SessionStep("get_student_details", <<>>, get_student_details, state)

BuildSchedule ==
  \E avoid_days \in AvoidDaysArgs, avoid_times \in AvoidTimesArgs :
    SessionStep("build_schedule", <<avoid_days, avoid_times>>,
                build_schedule(avoid_days, avoid_times),
                Put(state, "constraints", constraints(avoid_days, avoid_times)))

SessionInit ==
  /\ studentsFile \in StudentsFiles
  /\ state = EmptyDict

(***************************************************************************)
(* Eligibility: get_enrollable_courses over the two remote tables.         *)
(***************************************************************************)
QUERY_STUDENT_ID == "AAAr+31XvoSD4GO4PvUzMvA3tZzHzQezVLUhUdPuwiQ="

\* str.split(","): the pieces between the commas, empty ones included
RECURSIVE Split(_, _)
Split(s, piece) ==
  IF s = <<>> THEN <<piece>>
  ELSE IF Head(s) = "," THEN <<piece>> \o Split(Tail(s), <<>>)
  ELSE Split(Tail(s), Append(piece, Head(s)))

\* [c.strip() for c in Still_Needed.split(",") if c.strip()], in the order of the string
NeededList(Still_Needed) ==
  LET pieces == Split(Still_Needed, <<>>)
      stripped == [i \in DOMAIN pieces |-> Strip(pieces[i])]
      nonEmpty(c) == c # <<>>
  IN SelectSeq(stripped, nonEmpty)

\* set(c.strip() for c in Still_Needed.split(",") if c.strip())
still_needed(Still_Needed) == Range(NeededList(Still_Needed))

\* set(row["COURSE_ID"] for row in result_offerings if row["COURSE_ID"])
offered_courses(result_offerings) ==
  {result_offerings[i].COURSE_ID : i \in DOMAIN result_offerings} \ {<<>>}

\* a faulty variant: the courses still needed, whether offered or not
EligibleIgnoringOfferings(Still_Needed, result_offerings) ==
  sorted(list(still_needed(Still_Needed)))

\* a faulty variant: the needed courses that are offered, in the order and number of the string
EligibleInNeededOrder(Still_Needed, result_offerings) ==
  LET isOffered(c) == c \in offered_courses(result_offerings)
  IN SelectSeq(NeededList(Still_Needed), isOffered)

\* sorted(list(still_needed & offered_courses))
eligible_courses(Still_Needed, result_offerings) ==
  sorted(list(still_needed(Still_Needed) \cap offered_courses(result_offerings)))

\* the decimal digits of a small count, as str() gives them
str(n) == << <<"0", "1", "2", "3", "4", "5", "6", "7", "8", "9">>[n + 1] >>

get_enrollable_courses ==
  LET failed(exc) ==
        Return([status |-> "error",
                message |-> Msg("Failed to load enrollable courses: {e}", << <<exc>> >>),
                courses |-> <<>>])
      result_needed == needed_table
      result_offerings == offerings_table
      eligible == eligible_courses(result_needed.value[1].Still_Needed, result_offerings.value)
  IN IF result_needed.kind = "raise" THEN failed(result_needed.exc)
     ELSE IF result_needed.value = <<>> \/ result_needed.value[1].Still_Needed = <<>>
     THEN Return([status |-> "error",
                  message |-> Msg("No 'Still_Needed' courses found for the student.", <<>>),
                  courses |-> <<>>])
     ELSE IF result_offerings.kind = "raise" THEN failed(result_offerings.exc)
     ELSE Return([status |-> "success",
                  message |-> Msg("{n} courses are available for enrollment next term.",
                                  <<str(Len(eligible))>>),
                  courses |-> eligible])

GetEnrollableCourses ==
  SessionStep("get_enrollable_courses", <<>>, get_enrollable_courses,
              Put(state, "student_id", QUERY_STUDENT_ID))

(***************************************************************************)
(* The remote tables.  A query fails or yields rows; an empty or NULL cell *)
(* is the empty string (both are falsy to the code).  The row of a student *)
(* lists courses the student has not completed (the store computes "still  *)
(* needed" from the completion records).                                   *)
(***************************************************************************)
CourseAB == [course_id |-> <<"A", "B">>, title |-> "Capstone",
             prerequisites |-> << <<"A">>, <<"B">> >>]

EnrollCatalogs == { <<CourseA, CourseB>>, <<CourseA, CourseB, CourseAB>> }

NeededStrings == StringsOver({"A", "B", ",", " "}, 0, MaxNeededLen)

OfferingRows ==
  { <<>>,
    <<[COURSE_ID |-> <<"A">>]>>,
    <<[COURSE_ID |-> <<"B">>], [COURSE_ID |-> <<"A">>]>>,
    <<[COURSE_ID |-> <<"B">>], [COURSE_ID |-> <<>>], [COURSE_ID |-> <<"A", "B">>],
      [COURSE_ID |-> <<"B">>]>>,
    <<[COURSE_ID |-> <<"A", "B">>], [COURSE_ID |-> <<"A">>], [COURSE_ID |-> <<"B">>]>> }

\* the rows the store can hold for a student who has completed `taken`
StudentRows(taken) ==
  {<<[Still_Needed |-> n]>> : n \in {m \in NeededStrings : still_needed(m) \cap taken = {}}}

RemoteInit ==
  /\ courses_taken \in SUBSET { <<"A">>, <<"B">> }
  /\ needed_table \in
       {Raise("GoogleAPIError"), Return(<<>>)}
         \cup {Return(rows) : rows \in StudentRows(courses_taken)}
  /\ offerings_table \in {Raise("GoogleAPIError")} \cup {Return(rows) : rows \in OfferingRows}

(***************************************************************************)
(* FAQ matcher: load_faqs and get_faq_answer.  A dict is the list of its   *)
(* items in insertion order.  difflib's ratios are fractions num / den.    *)
(***************************************************************************)
Keys(d) == [i \in DOMAIN d |-> d[i].key]

Lookup(d, k) == (CHOOSE i \in DOMAIN d : d[i].key = k)

\* d[k] = v: a known key keeps its place and takes the new value
DictSet(d, k, v) ==
  IF \E i \in DOMAIN d : d[i].key = k
  THEN [i \in DOMAIN d |-> IF d[i].key = k THEN [key |-> k, value |-> v] ELSE d[i]]
  ELSE Append(d, [key |-> k, value |-> v])

\* {item["question"].strip().lower(): item["answer"] for item in data}
RECURSIVE load_faqs(_)
load_faqs(data) ==
  IF data = <<>> THEN <<>>
  ELSE LET item == data[Len(data)]
       IN DictSet(load_faqs(SubSeq(data, 1, Len(data) - 1)),
                  Lower(Strip(item.question)), item.answer)

Min(a, b) == IF a < b THEN a ELSE b

\* SequenceMatcher.find_longest_match without junk: a longest common block,
\* the one that starts earliest in a and, of those, earliest in b
LongestMatch(a, b) ==
  LET blocks == {blk \in (1..Len(a)) \X (1..Len(b)) \X (1..Min(Len(a), Len(b))) :
                   /\ blk[1] + blk[3] - 1 <= Len(a)
                   /\ blk[2] + blk[3] - 1 <= Len(b)
                   /\ SubSeq(a, blk[1], blk[1] + blk[3] - 1)
                        = SubSeq(b, blk[2], blk[2] + blk[3] - 1)}
      better(x, y) ==
        \/ x[3] > y[3]
        \/ x[3] = y[3] /\ x[1] < y[1]
        \/ x[3] = y[3] /\ x[1] = y[1] /\ x[2] < y[2]
  IN IF blocks = {} THEN <<1, 1, 0>>
     ELSE CHOOSE x \in blocks : \A y \in blocks \ {x} : better(x, y)

\* the total size of SequenceMatcher.get_matching_blocks()
RECURSIVE Matches(_, _)
Matches(a, b) ==
  LET m == LongestMatch(a, b)
      i == m[1]
      j == m[2]
      k == m[3]
  IN IF k = 0 THEN 0
     ELSE k + Matches(SubSeq(a, 1, i - 1), SubSeq(b, 1, j - 1))
            + Matches(SubSeq(a, i + k, Len(a)), SubSeq(b, j + k, Len(b)))

\* difflib._calculate_ratio
calculate_ratio(matches, length) ==
  IF length # 0 THEN [num |-> 2 * matches, den |-> length] ELSE [num |-> 1, den |-> 1]

ratio(a, b) == calculate_ratio(Matches(a, b), Len(a) + Len(b))

\* how many elements of a find an unused equal element of b
RECURSIVE MultisetMatches(_, _)
MultisetMatches(a, b) ==
  IF a = <<>> THEN 0
  ELSE IF \E j \in DOMAIN b : b[j] = Head(a)
  THEN LET j == CHOOSE x \in DOMAIN b : b[x] = Head(a)
       IN 1 + MultisetMatches(Tail(a), SubSeq(b, 1, j - 1) \o SubSeq(b, j + 1, Len(b)))
  ELSE MultisetMatches(Tail(a), b)

quick_ratio(a, b) == calculate_ratio(MultisetMatches(a, b), Len(a) + Len(b))

real_quick_ratio(a, b) == calculate_ratio(Min(Len(a), Len(b)), Len(a) + Len(b))

RatioLess(r, q) == r.num * q.den < q.num * r.den

RatioAtLeast(r, q) == ~RatioLess(r, q)

\* (score, x) < (score2, x2) on tuples of a ratio and a string
ScoredLess(p, q) ==
  \/ RatioLess(p.score, q.score)
  \/ p.score.num * q.score.den = q.score.num * p.score.den /\ StrLess(p.x, q.x)

\* a faulty variant: the first of the best-scoring entries wins
FirstBestScore(scored) ==
  IF scored = <<>> THEN <<>>
  ELSE LET best == CHOOSE i \in DOMAIN scored :
                     /\ \A j \in DOMAIN scored : ~RatioLess(scored[i].score, scored[j].score)
                     /\ \A j \in 1..(i - 1) : RatioLess(scored[j].score, scored[i].score)
       IN <<scored[best]>>

\* heapq.nlargest(1, result): max() of the (score, x) tuples
nlargest1(scored) ==
  IF scored = <<>> THEN <<>>
  ELSE LET best == CHOOSE i \in DOMAIN scored :
                     /\ \A j \in DOMAIN scored : ~ScoredLess(scored[i], scored[j])
                     /\ \A j \in 1..(i - 1) : ScoredLess(scored[j], scored[i])
       IN <<scored[best]>>

\* difflib.get_close_matches(word, possibilities, n=1, cutoff)
get_close_matches(word, possibilities, cutoff) ==
  LET close(x) ==
        /\ RatioAtLeast(real_quick_ratio(x, word), cutoff)
        /\ RatioAtLeast(quick_ratio(x, word), cutoff)
        /\ RatioAtLeast(ratio(x, word), cutoff)
      kept == SelectSeq(possibilities, close)
      scored == [i \in DOMAIN kept |-> [score |-> ratio(kept[i], word), x |-> kept[i]]]
      top == nlargest1(scored)
  IN [i \in DOMAIN top |-> top[i].x]

\* cutoff=0.6
Cutoff == [num |-> 6, den |-> 10]

get_faq_answer(question) ==
  LET q == Lower(Strip(question))
      questions == Keys(faq_responses)
      best_match == get_close_matches(q, questions, Cutoff)
  IN IF best_match # <<>>
     THEN Return([status |-> "success",
                  answer |-> faq_responses[Lookup(faq_responses, best_match[1])].value])
     ELSE Return([status |-> "error",
                  error_message |-> Msg("I'm sorry, I don't have an answer to that question yet. Please try rephrasing or contact your academic advisor.", <<>>)])

Faq1 == [question |-> <<"a", "b">>, answer |-> "one"]
Faq2 == [question |-> <<"b", "a">>, answer |-> "two"]
Faq3 == [question |-> <<"a">>, answer |-> "three"]
Faq4 == [question |-> <<" ", "A">>, answer |-> "four"]
Faq5 == [question |-> <<"b", "b">>, answer |-> "five"]

FaqItems == {Faq1, Faq2, Faq3, Faq4, Faq5}

\* faqs.yaml: up to three of the items, in any order
FaqFiles ==
  {data \in UNION {[1..n -> FaqItems] : n \in 0..3} :
     \A i, j \in DOMAIN data : i # j => data[i] # data[j]}

QuestionArgs == StringsOver({"a", "b", "B", " "}, 0, MaxQuestionLen)

GetFaqAnswer ==
  /\ \E question \in QuestionArgs :
       result' = Call("get_faq_answer", <<question>>, get_faq_answer(question))
  /\ UNCHANGED <<catalogVars, sessionVars, remoteVars, faqVars, threadVars>>

FaqInit == faq_responses \in {load_faqs(data) : data \in FaqFiles}

(***************************************************************************)
(* Concurrent callers of _load_courses.  The interpreter runs one          *)
(* bytecode at a time: the test of the global, the read of the file, the   *)
(* store to the global and the return are steps other callers interleave   *)
(* with.  The data files are put in place at deploy time: a file that      *)
(* parses is not replaced while the process runs.                          *)
(***************************************************************************)
Threads == 1..NumThreads

NoReturn == [kind |-> "none"]

ThreadStep(t, newPc) ==
  /\ pc' = [pc EXCEPT ![t] = newPc]
  /\ result' = NoCall
  /\ UNCHANGED <<offeringsFile, _OFFERINGS_CACHE, offeringsReads,
                 sessionVars, remoteVars, faqVars>>

\* a tool calls _load_courses()
ThreadCall(t) ==
  /\ pc[t] \in {"idle", "done"}
  /\ ThreadStep(t, "check")
  /\ returned' = [returned EXCEPT ![t] = NoReturn]
  /\ UNCHANGED <<coursesFile, _COURSE_CACHE, courseReads, failedLoads, loaded>>

\* if _COURSE_CACHE is None:
ThreadCheck(t) ==
  /\ pc[t] = "check"
  /\ ThreadStep(t, IF _COURSE_CACHE = PyNone THEN "read" ELSE "return")
  /\ UNCHANGED <<coursesFile, _COURSE_CACHE, courseReads, failedLoads, loaded, returned>>

\* a faulty variant: the global is bound to an empty list that is filled afterwards
ThreadReadPartial(t) ==
  /\ pc[t] = "read"
  /\ LET r == ReadJson(coursesFile)
     IN IF r.kind = "raise"
        THEN /\ ThreadStep(t, "done")
             /\ returned' = [returned EXCEPT ![t] = r]
             /\ failedLoads' = failedLoads \cup {"courses"}
             /\ UNCHANGED <<_COURSE_CACHE, courseReads, loaded>>
        ELSE /\ ThreadStep(t, "store")
             /\ loaded' = [loaded EXCEPT ![t] = r.value]
             /\ courseReads' = courseReads + 1
             /\ _COURSE_CACHE' = PyList(<<>>)
             /\ UNCHANGED <<returned, failedLoads>>
  /\ UNCHANGED coursesFile

\* with open(path) as f: json.load(f)
ThreadRead(t) ==
  /\ pc[t] = "read"
  /\ LET r == ReadJson(coursesFile)
     IN IF r.kind = "raise"
        THEN /\ ThreadStep(t, "done")
             /\ returned' = [returned EXCEPT ![t] = r]
             /\ failedLoads' = failedLoads \cup {"courses"}
             /\ UNCHANGED <<courseReads, loaded>>
        ELSE /\ ThreadStep(t, "store")
             /\ loaded' = [loaded EXCEPT ![t] = r.value]
             /\ courseReads' = courseReads + 1
             /\ UNCHANGED <<returned, failedLoads>>
  /\ UNCHANGED <<coursesFile, _COURSE_CACHE>>

\* _COURSE_CACHE = <the loaded value>
ThreadStore(t) ==
  /\ pc[t] = "store"
  /\ ThreadStep(t, "return")
  /\ _COURSE_CACHE' = loaded[t]
  /\ loaded' = [loaded EXCEPT ![t] = PyNone]
  /\ UNCHANGED <<coursesFile, courseReads, failedLoads, returned>>

\* return _COURSE_CACHE
ThreadReturn(t) ==
  /\ pc[t] = "return"
  /\ ThreadStep(t, "done")
  /\ returned' = [returned EXCEPT ![t] = Return(_COURSE_CACHE)]
  /\ UNCHANGED <<coursesFile, _COURSE_CACHE, courseReads, failedLoads, loaded>>

\* the deployment puts a parsable catalog where none was
Deploy ==
  /\ coursesFile.kind # "json"
  /\ \E c \in CourseCatalogs : coursesFile' = Json(c)
  /\ result' = NoCall
  /\ UNCHANGED <<offeringsFile, _COURSE_CACHE, _OFFERINGS_CACHE, courseReads,
                 offeringsReads, failedLoads, sessionVars, remoteVars, faqVars,
                 threadVars>>

ThreadInit ==
  /\ pc = [t \in Threads |-> "idle"]
  /\ loaded = [t \in Threads |-> PyNone]
  /\ returned = [t \in Threads |-> NoReturn]

(***************************************************************************)
(* Specifications.  Each starts from the process as constructed, with the  *)
(* part of the deployment it is about drawn from its possible contents.    *)
(***************************************************************************)
SessionIdle == studentsFile = Missing /\ state = EmptyDict

RemoteIdle ==
  /\ courses_taken = {}
  /\ needed_table = Return(<<>>)
  /\ offerings_table = Return(<<>>)

FaqIdle == faq_responses = load_faqs(<<Faq1, Faq2>>)

\* the catalog store and the catalog lookup
Init ==
  /\ CatalogInit
  /\ SessionIdle /\ RemoteIdle /\ FaqIdle /\ ThreadInit
  /\ result = NoCall

Next ==
  \/ WriteCoursesFile
  \/ WriteOfferingsFile
  \/ LoadCourses
  \/ LoadOfferings
  \/ GetCourseDetails

Spec == Init /\ [][Next]_vars

\* the offerings table and the offerings lookup
InitOfferings == Init /\ coursesFile = Missing

NextOfferings ==
  \/ WriteOfferingsFile
  \/ LoadOfferings
  \/ GetCourseOfferings

SpecOfferings == InitOfferings /\ [][NextOfferings]_vars

\* one session: the callback and the tools that read or write the session state
InitSession ==
  /\ SessionInit
  /\ CatalogInit /\ coursesFile = Missing /\ offeringsFile = Missing
  /\ courses_taken = {}
  /\ needed_table \in {Raise("GoogleAPIError"), Return(<<>>),
                        Return(<<[Still_Needed |-> <<"B", ",", "A">>]>>)}
  /\ offerings_table = Return(<<[COURSE_ID |-> <<"A">>]>>)
  /\ FaqIdle /\ ThreadInit
  /\ result = NoCall

NextSession ==
  \/ BeforeAgentCallback
  \/ GetStudentDetails
  \/ BuildSchedule
  \/ GetEnrollableCourses

SpecSession == InitSession /\ [][NextSession]_vars

\* get_enrollable_courses over every content of the remote tables
InitEnroll ==
  /\ RemoteInit
  /\ CatalogInit /\ offeringsFile = Missing
  /\ coursesFile \in {Json(c) : c \in EnrollCatalogs}
  /\ SessionIdle /\ FaqIdle /\ ThreadInit
  /\ result = NoCall

NextEnroll == GetEnrollableCourses

SpecEnroll == InitEnroll /\ [][NextEnroll]_vars

\* get_faq_answer over every content of faqs.yaml
InitFaq ==
  /\ FaqInit
  /\ CatalogInit /\ coursesFile = Missing /\ offeringsFile = Missing
  /\ SessionIdle /\ RemoteIdle /\ ThreadInit
  /\ result = NoCall

NextFaq == GetFaqAnswer

SpecFaq == InitFaq /\ [][NextFaq]_vars

\* concurrent first loads of the course catalog
InitConc ==
  /\ CatalogInit /\ offeringsFile = Missing
  /\ SessionIdle /\ RemoteIdle /\ FaqIdle /\ ThreadInit
  /\ result = NoCall

NextConc ==
  \/ Deploy
  \/ \E t \in Threads :
       \/ ThreadCall(t)
       \/ ThreadCheck(t)
       \/ ThreadRead(t)
       \/ ThreadStore(t)
       \/ ThreadReturn(t)

SpecConc == InitConc /\ [][NextConc]_vars

(***************************************************************************)
(* Properties.                                                             *)
(***************************************************************************)
ToolNames ==
  {"get_enrollable_courses", "get_course_details", "get_course_offerings",
   "build_schedule", "get_student_details", "get_faq_answer"}

ToolCalled == result.op \in ToolNames

\* the dict a call returned
Value == result.out.value

Called(op) == result.op = op

Returned(op) == result.op = op /\ result.out.kind = "return"

Count(s, x) == Cardinality({i \in DOMAIN s : s[i] = x})

SameElements(s, t) == \A x \in Range(s) \cup Range(t) : Count(s, x) = Count(t, x)

\* ---- C3 ----------------------------------------------------------------
\* C3: once a call of _load_courses / _load_offerings has succeeded, the
\* backing file has been read exactly once and is never read again; the cache
\* never changes, and every later call of the loader returns the cache,
\* whatever the file holds by then.
C3_ReadOnce ==
  /\ []((_COURSE_CACHE # PyNone => courseReads = 1)
        /\ (_OFFERINGS_CACHE # PyNone => offeringsReads = 1))
  /\ [][(_COURSE_CACHE # PyNone) =>
           (/\ _COURSE_CACHE' = _COURSE_CACHE
            /\ courseReads' = courseReads
            /\ ((result'.op = "_load_courses")
                  => (result'.out = Return(_COURSE_CACHE))))]_vars
  /\ [][(_OFFERINGS_CACHE # PyNone) =>
           (/\ _OFFERINGS_CACHE' = _OFFERINGS_CACHE
            /\ offeringsReads' = offeringsReads
            /\ ((result'.op = "_load_offerings")
                  => (result'.out = Return(_OFFERINGS_CACHE))))]_vars

\* a later call returned the cached catalog although the file had been replaced
C3_Witness ==
  /\ Returned("_load_courses")
  /\ Value = _COURSE_CACHE
  /\ courseReads = 1
  /\ coursesFile.kind = "json"
  /\ PyList(coursesFile.value) # _COURSE_CACHE

\* ---- C4 ----------------------------------------------------------------
\* C4: a load whose read fails raises that failure to its caller and leaves
\* the cache empty; a call that finds the cache empty reads the file again,
\* and if the file parses by then it returns the parsed content and caches it.
C4_FailedLoadRetried ==
  /\ []((Called("_load_courses") /\ result.out.kind = "raise" =>
           _COURSE_CACHE = PyNone /\ result.out = ReadJson(coursesFile))
        /\ (Called("_load_offerings") /\ result.out.kind = "raise" =>
           _OFFERINGS_CACHE = PyNone /\ result.out = ReadJson(offeringsFile)))
  /\ [][(result'.op = "_load_courses" /\ _COURSE_CACHE = PyNone) =>
           (IF ReadJson(coursesFile).kind = "raise"
            THEN /\ result'.out = ReadJson(coursesFile)
                 /\ _COURSE_CACHE' = PyNone
                 /\ "courses" \in failedLoads'
            ELSE /\ result'.out = Return(PyList(coursesFile.value))
                 /\ _COURSE_CACHE' = PyList(coursesFile.value))]_vars
  /\ [][(result'.op = "_load_offerings" /\ _OFFERINGS_CACHE = PyNone) =>
           (IF ReadJson(offeringsFile).kind = "raise"
            THEN /\ result'.out = ReadJson(offeringsFile)
                 /\ _OFFERINGS_CACHE' = PyNone
                 /\ "offerings" \in failedLoads'
            ELSE /\ result'.out = Return(PyList(offeringsFile.value))
                 /\ _OFFERINGS_CACHE' = PyList(offeringsFile.value))]_vars

\* a call of _load_courses raised, and a later one read the repaired file
C4_Witness ==
  /\ "courses" \in failedLoads
  /\ Returned("_load_courses")
  /\ courseReads = 1
  /\ Value = PyList(coursesFile.value)
  /\ _COURSE_CACHE = Value

\* ---- C8 ----------------------------------------------------------------
\* every entry of the loaded table has the fields the lookup reads
WellFormedOfferings(data) ==
  \A i \in DOMAIN data : HasKey(data[i], "term") /\ HasKey(data[i], "year")

\* the entries whose term equals the quarter ignoring case and whose year
\* equals the integer the year string denotes
MatchingEntries(data, quarter, year) ==
  {i \in DOMAIN data :
     Lower(data[i].term) = Lower(quarter) /\ data[i].year = int(year).value}

FirstIndex(S) == CHOOSE i \in S : \A j \in S : i <= j

\* C8: with the offerings table loaded and well formed and the year string
\* convertible to an integer, get_course_offerings returns status "success"
\* with the ascending-sorted course ids of the (first) entry whose term
\* equals the quarter ignoring case and whose year equals the integer, and
\* returns status "error" with no offerings and a message naming the quarter
\* and the year exactly when no entry matches.
C8_OfferingsLookup ==
  (/\ Called("get_course_offerings")
   /\ int(result.args[2]).kind = "return"
   /\ _OFFERINGS_CACHE # PyNone
   /\ WellFormedOfferings(_OFFERINGS_CACHE.items))
  => LET quarter == result.args[1]
         year == result.args[2]
         data == _OFFERINGS_CACHE.items
         matching == MatchingEntries(data, quarter, year)
     IN /\ result.out.kind = "return"
        /\ Value.status = (IF matching = {} THEN "error" ELSE "success")
        /\ Value.message.args = <<quarter, year>>
        /\ IF matching = {}
           THEN Value.offerings = <<>>
           ELSE /\ Ascending(Value.offerings)
                /\ SameElements(Value.offerings,
                                Get(data[FirstIndex(matching)], "courses", <<>>))

\* a quarter spelled in another case than the stored term was found, and its
\* courses came back in another order than the stored one
C8_Witness ==
  /\ Returned("get_course_offerings")
  /\ Value.status = "success"
  /\ _OFFERINGS_CACHE # PyNone
  /\ WellFormedOfferings(_OFFERINGS_CACHE.items)
  /\ LET matching == MatchingEntries(_OFFERINGS_CACHE.items, result.args[1], result.args[2])
         entry == _OFFERINGS_CACHE.items[FirstIndex(matching)]
     IN /\ matching # {}
        /\ entry.term # result.args[1]
        /\ HasKey(entry, "courses")
        /\ entry.courses # Value.offerings

\* ---- C2 ----------------------------------------------------------------
\* C2: no tool call ends by raising: a fault of the backing source or a
\* malformed argument yields a returned result with status "error" and a
\* message.
C2_FaultsBecomeErrors ==
  ToolCalled =>
    /\ result.out.kind = "return"
    /\ (Called("get_course_offerings") /\ int(result.args[2]).kind = "raise"
          => Value.status = "error" /\ HasKey(Value, "message"))
    /\ (Called("get_course_offerings") /\ _OFFERINGS_CACHE = PyNone
          => Value.status = "error" /\ HasKey(Value, "message"))
    /\ (Called("get_course_details") /\ _COURSE_CACHE = PyNone
          => Value.status = "error" /\ HasKey(Value, "message"))

\* ---- C5 ----------------------------------------------------------------
\* C5: under every interleaving of concurrent first loads, the cache is
\* either empty or the complete parsed content of the file, and every caller
\* that has returned holds that same content.
C5_RacingLoadsConverge ==
  /\ _COURSE_CACHE # PyNone =>
       coursesFile.kind = "json" /\ _COURSE_CACHE = PyList(coursesFile.value)
  /\ \A t \in Threads :
       returned[t].kind = "return" =>
         /\ returned[t].value # PyNone
         /\ returned[t].value = _COURSE_CACHE
  /\ \A t, u \in Threads :
       returned[t].kind = "return" /\ returned[u].kind = "return" =>
         returned[t].value = returned[u].value

\* two callers both found the cache empty, both read the file, and both returned
C5_Witness ==
  /\ courseReads >= 2
  /\ \E t, u \in Threads :
       /\ t # u
       /\ returned[t].kind = "return"
       /\ returned[u].kind = "return"
       /\ returned[t].value.items # <<>>

\* ---- C6 ----------------------------------------------------------------
PayloadKey(op) ==
  CASE op = "get_enrollable_courses" -> "courses"
    [] op = "get_course_details" -> "course_details"
    [] op = "get_course_offerings" -> "offerings"
    [] op = "get_student_details" -> "student_details"
    [] op = "get_faq_answer" -> "answer"
    [] op = "build_schedule" -> "schedule"

\* C6: every result a tool returns has status "success" or "error", and an
\* error result carries its description under the key message and the
\* tool's payload key with an empty collection.
C6_ResultShape ==
  ToolCalled =>
    /\ result.out.kind = "return"
    /\ HasKey(Value, "status")
    /\ Value.status \in {"success", "error"}
    /\ Value.status = "error" =>
         /\ HasKey(Value, "message")
         /\ HasKey(Value, PayloadKey(result.op))
         /\ DOMAIN Value[PayloadKey(result.op)] = {}

\* ---- C7 ----------------------------------------------------------------
\* students.json holds no record of STUDENT_ID
NoLocalRecord ==
  /\ studentsFile.kind = "json"
  /\ \A i \in DOMAIN studentsFile.value :
       Get(studentsFile.value[i], "student_id", "") # STUDENT_ID

\* the remote query returned no row
NoRemoteRow == needed_table = Return(<<>>)

\* C7: when the student has no record, get_student_details called after
\* before_agent_callback and get_enrollable_courses both return status "error".
C7_StudentNotFound ==
  /\ (Returned("get_student_details") /\ HasKey(state, "student_details") /\ NoLocalRecord)
       => Value.status = "error"
  /\ (Returned("get_enrollable_courses") /\ NoRemoteRow)
       => Value.status = "error"

\* ---- C1 ----------------------------------------------------------------
\* the catalog, the offered ids and the student of the request
Catalog == coursesFile.value

Offered ==
  {offerings_table.value[i].COURSE_ID : i \in DOMAIN offerings_table.value} \ {<<>>}

EnrollSucceeded == Returned("get_enrollable_courses") /\ Value.status = "success"

\* the student has a row with a non-empty Still_Needed and both queries answer
EnrollInputsPresent ==
  /\ needed_table.kind = "return"
  /\ needed_table.value # <<>>
  /\ needed_table.value[1].Still_Needed # <<>>
  /\ offerings_table.kind = "return"

\* C1 as claimed: a course of the catalog is in the result if and only if it
\* is offered, not taken, and all its prerequisites are taken.
C1_PrerequisiteFilter ==
  EnrollSucceeded =>
    \A i \in DOMAIN Catalog :
      LET course == Catalog[i]
      IN course.course_id \in Range(Value.courses)
           <=> /\ course.course_id \in Offered
               /\ course.course_id \notin courses_taken
               /\ Range(course.prerequisites) \subseteq courses_taken

\* C1 as amended: the result holds exactly the ids that are listed (between
\* commas, trimmed) in the student's Still_Needed string and are offered next
\* term; without a row, with an empty Still_Needed or with a failing query the
\* tool returns status "error" and no courses.
C1_NeededAndOffered ==
  Called("get_enrollable_courses") =>
    /\ result.out.kind = "return"
    /\ IF EnrollInputsPresent
       THEN /\ Value.status = "success"
            /\ Range(Value.courses)
                 = {c \in Range(NeededList(needed_table.value[1].Still_Needed)) : c \in Offered}
       ELSE Value.status = "error" /\ Value.courses = <<>>

\* a course of the catalog is in the result while one of its prerequisites is
\* not among the courses taken
C1_Witness ==
  /\ EnrollSucceeded
  /\ \E i \in DOMAIN Catalog :
       /\ Catalog[i].course_id \in Range(Value.courses)
       /\ ~(Range(Catalog[i].prerequisites) \subseteq courses_taken)

\* ---- C10 ---------------------------------------------------------------
\* C10: the courses list get_enrollable_courses returns, on success or on
\* error, is strictly ascending in the order of strings and holds no course
\* id twice.
C10_StrictlyAscending ==
  Called("get_enrollable_courses") =>
    /\ result.out.kind = "return"
    /\ StrictlyAscending(Value.courses)
    /\ \A i, j \in DOMAIN Value.courses : i # j => Value.courses[i] # Value.courses[j]

\* two courses came back in ascending order from a Still_Needed string that
\* lists them in another order
C10_Witness ==
  /\ EnrollSucceeded
  /\ Len(Value.courses) >= 2
  /\ ~Ascending(NeededList(needed_table.value[1].Still_Needed))

\* ---- C9 ----------------------------------------------------------------
\* the normalized question of the call and the stored questions
AskedQuestion == Lower(Strip(result.args[1]))

Stored == Keys(faq_responses)

Similarity(i) == ratio(Stored[i], AskedQuestion)

\* the stored questions that reach the threshold
Qualifying == {i \in DOMAIN Stored : RatioAtLeast(Similarity(i), Cutoff)}

\* those of them with the highest ratio
Best == {i \in Qualifying : \A j \in Qualifying : ~RatioLess(Similarity(i), Similarity(j))}

\* C9 as claimed: the answer is that of the best-matching stored question
\* that comes first in stored order; NoMatch exactly when none qualifies.
C9_FirstStoredWinsTies ==
  Called("get_faq_answer") =>
    /\ result.out.kind = "return"
    /\ IF Qualifying = {}
       THEN Value.status = "error"
       ELSE /\ Value.status = "success"
            /\ Value.answer = faq_responses[FirstIndex(Best)].value

\* C9 as amended: the answer is that of the stored question with the highest
\* ratio among those at or above 0.6, and among several with that ratio the
\* one that is greatest in the order of strings; NoMatch exactly when none
\* qualifies.
C9_GreatestStringWinsTies ==
  Called("get_faq_answer") =>
    /\ result.out.kind = "return"
    /\ IF Qualifying = {}
       THEN Value.status = "error"
       ELSE /\ Value.status = "success"
            /\ \E i \in Best :
                 /\ \A j \in Best \ {i} : StrLess(Stored[j], Stored[i])
                 /\ Value.answer = faq_responses[i].value

\* two stored questions tie for the highest ratio and the answer is not that
\* of the one stored first
C9_Witness ==
  /\ Returned("get_faq_answer")
  /\ Value.status = "success"
  /\ Cardinality(Best) >= 2
  /\ Value.answer # faq_responses[FirstIndex(Best)].value

=============================================================================
